---- MODULE Spec2Model ----
(***************************************************************************)
(* Move-quality analysis of MAIgnus_CAIrlsen: analyze_with_stockfish of    *)
(* src/src/modular_analyzer.py (variant "modular") and of                  *)
(* src/src/analyzer.py (variant "unified"), as a state machine that takes  *)
(* one step per loop iteration.  A position is identified by the number of *)
(* moves applied to the starting position (position 0 is the start,        *)
(* position k the one after ply k); the engine is a deterministic oracle   *)
(* from positions to White-perspective centipawn evaluations.              *)
(*                                                                         *)
(* Further specifications cover two concurrent calls of the analysis       *)
(* (SpecConcurrent), the workflow of src/src/maignus_bot.py with           *)
(* fetch_and_save_pgns of src/src/chess_api.py (SpecBot), and              *)
(* ChessAnalyzer.load_data of src/src/analysis.py (SpecLoader).            *)
(***************************************************************************)
EXTENDS Integers, Sequences, FiniteSets, TLC

\* ---------------------------------------------------------------- bounds
MaxPlies == 5

\* Evaluations the oracle may return (White's perspective, centipawns).
EvalValues == {-350, -75, 0, 15}

Variants == {"modular", "unified"}

\* ------------------------------------------------------ program constants
BlunderThreshold == 300
ModularMistakeThreshold == 75
ModularInaccuracyThreshold == 20
UnifiedMistakeThreshold == 100
UnifiedInaccuracyThreshold == 50
CriticalFloor == 10
TopK == 3

\* ------------------------------------------------------------------ state
VARIABLES
    variant,          \* which analyze_with_stockfish is running
    nPlies,           \* len(list(game.mainline_moves()))
    engine_score,     \* position -> the score the engine reports for it
    oracle,           \* position -> evaluation the code derives from that score
    pc,               \* "start" | "loop" | "returned" | "failed" | "cancelled"
    engine,           \* "none" | "running" | "quit"
    board,            \* number of moves pushed on the board
    white_stats,
    black_stats,
    critical_moments,
    last_eval,
    move_num,
    queries,          \* positions handed to engine.analyse, in call order
    ply_log,          \* what each completed loop iteration did
    result,           \* what the call handed back to its caller
    popen_calls,      \* calls of popen_uci made by this analysis call
    fault,            \* "none" | "popen" | "analyse" | "san": what raised
    failed_at,        \* number of the query that raised, 0 if none did
    illegal_pushed,   \* an illegal move was pushed on the board
    run,              \* 1 for the first call on the game, 2 for the re-run
    first_result,     \* what the first call returned, once re-run
    report,           \* kind of statistics the report was written from
    main_pc,          \* where maignus_bot.main stands around the analysis
    inst,             \* two concurrent calls: call number -> its game and locals
    archive,          \* games the latest Chess.com archive lists now
    seen_file,        \* URLs stored in seen_games.json
    latest_pgn,       \* URL of the most recently written .pgn file, "" if none
    force,            \* "--force" in sys.argv
    bot_pc,           \* where maignus_bot.main stands
    games,            \* fetch_and_save_pgns: the list it got from the archive
    game_i,           \* fetch_and_save_pgns: position of the for loop in games
    seen_urls,        \* fetch_and_save_pgns: the set loaded from the file
    new_seen_urls,
    new_games_found,
    fetch_ret,        \* "none" | "true" | "false": what the fetch returned
    steps,            \* steps main has entered in this run, in order
    loaded,           \* URL of the game main loaded, "" if none
    email_sent,       \* send_analysis_email returned True in this run
    main_ret,         \* "none" | "true" | "false" | "raised"
    write_count,      \* URL -> how often its .pgn file was written, over all runs
    seen_before,      \* seen_file when the current fetch call began
    saved_now,        \* URLs whose file the current fetch call wrote
    has_prev,         \* the fetch call of the previous run completed
    prev_games,       \* the list that call got
    runs,             \* runs of main so far
    db,               \* rows of the game_analysis table, by row number
    args,             \* the arguments of load_data and the chunk_size in use
    ld_pc,            \* where load_data stands
    total_rows,
    chunks,
    records_loaded,
    offset,
    games_df          \* self.games_df: the row numbers loaded, in order

game == <<variant, nPlies, engine_score, oracle>>

locals == <<board, white_stats, black_stats, critical_moments, last_eval, move_num>>

history == <<popen_calls, fault, failed_at, illegal_pushed>>

rerun == <<run, first_result>>

caller == <<report, main_pc>>

\* State of one analyze_with_stockfish call and of its caller.
analysis == <<game, pc, engine, locals, queries, ply_log, result, history, rerun, caller>>

fetch_locals == <<games, game_i, seen_urls, new_seen_urls, new_games_found>>

fetch_history == <<write_count, seen_before, saved_now, has_prev, prev_games>>

bot == <<archive, seen_file, latest_pgn, force, bot_pc, fetch_locals, fetch_ret, steps,
         loaded, email_sent, main_ret, fetch_history, runs>>

loader == <<db, args, ld_pc, total_rows, chunks, records_loaded, offset, games_df>>

\* State of the other parts of the program.
elsewhere == <<inst, bot, loader>>

vars == <<game, pc, engine, locals, queries, ply_log, result, history, rerun, caller,
          elsewhere>>

\* Python's None and a present value, for last_eval.
None == <<>>
Some(v) == <<v>>

Max(a, b) == IF a >= b THEN a ELSE b
Abs(a) == IF a >= 0 THEN a ELSE -a

ZeroStats == [total_cp_loss |-> 0, move_count |-> 0, blunders |-> 0,
              mistakes |-> 0, inaccuracies |-> 0]

\* Mutant of Turn: Black is given the first move.
TurnBlackFirst(b) == IF b % 2 = 0 THEN "black" ELSE "white"

\* board.turn before the move is pushed: White moves from even positions.
Turn(b) == IF b % 2 = 0 THEN "white" ELSE "black"

\* A score as the engine reports it: centipawns, or a forced mate in v moves
\* (v > 0: White mates, v <= 0: White is mated), both from White's side.
Cp(v) == [kind |-> "cp", v |-> v]
Mate(v) == [kind |-> "mate", v |-> v]

MateScore == 10000

\* Mutant of WhiteScore: a mate counted from a sentinel ten times as large.
WhiteScoreWideMate(score) ==
    IF score.kind = "cp" THEN score.v
    ELSE IF score.v > 0 THEN 10 * MateScore - score.v
                        ELSE -(10 * MateScore) - score.v

\* info["score"].white().score(mate_score=10000): a centipawn score as it
\* is, a mate in v as the sentinel less the distance.
WhiteScore(score) ==
    IF score.kind = "cp" THEN score.v
    ELSE IF score.v > 0 THEN MateScore - score.v
                        ELSE -MateScore - score.v

\* Mutant of QueryPosition: the board is handed over after one move more.
QueryPositionAhead(b) == b + 1

\* The position engine.analyse is given in an iteration that starts with b
\* moves on the board.
QueryPosition(b) == b

\* Mutant of InitialLastEval: the loop starts from an evaluation of 0.
InitialLastEvalZero == Some(0)

\* Mutant of InitialLastEval: the evaluation of an earlier call is kept.
StaleLastEval == last_eval

\* last_eval = None at the start of every call.
InitialLastEval == None

\* Mutant of OnAnalyseError: the loop goes on and asks again.
OnAnalyseErrorRetry == "loop"

\* Where the call stands after engine.analyse raised: in the except branch,
\* which returns.
OnAnalyseError == "failed"

\* Mutant of ModularCpLoss: the signed difference, without max(0, ...).
ModularCpLossSigned(player, last, cur) ==
    IF player = "white" THEN last - cur ELSE cur - last

\* cp_loss of one iteration, from last_eval and current_eval.
ModularCpLoss(player, last, cur) ==
    IF player = "white" THEN Max(0, last - cur) ELSE Max(0, cur - last)

UnifiedCpLoss(player, last, cur) == Abs(last - cur)

CpLoss(v, player, last, cur) ==
    IF v = "modular" THEN ModularCpLoss(player, last, cur)
                     ELSE UnifiedCpLoss(player, last, cur)

MistakeThreshold(v) ==
    IF v = "modular" THEN ModularMistakeThreshold ELSE UnifiedMistakeThreshold

InaccuracyThreshold(v) ==
    IF v = "modular" THEN ModularInaccuracyThreshold ELSE UnifiedInaccuracyThreshold

\* Mutant of Classify: three independent ifs instead of if / elif / elif.
ClassifyNonExclusive(v, stats, cp_loss) ==
    [stats EXCEPT
       !.blunders = IF cp_loss > BlunderThreshold THEN @ + 1 ELSE @,
       !.mistakes = IF cp_loss > MistakeThreshold(v) THEN @ + 1 ELSE @,
       !.inaccuracies = IF cp_loss > InaccuracyThreshold(v) THEN @ + 1 ELSE @]

\* The if / elif / elif chain on cp_loss.
Classify(v, stats, cp_loss) ==
    IF cp_loss > BlunderThreshold
    THEN [stats EXCEPT !.blunders = @ + 1]
    ELSE IF cp_loss > MistakeThreshold(v)
         THEN [stats EXCEPT !.mistakes = @ + 1]
         ELSE IF cp_loss > InaccuracyThreshold(v)
              THEN [stats EXCEPT !.inaccuracies = @ + 1]
              ELSE stats

\* Mutant of UpdateStats: move_count is raised only for a scored ply.
UpdateStatsUncounted(v, stats, player, last, cur) ==
    IF last # None
    THEN LET cp_loss == CpLoss(v, player, last[1], cur)
         IN  Classify(v, [stats EXCEPT !.move_count = @ + 1,
                                       !.total_cp_loss = @ + cp_loss], cp_loss)
    ELSE stats

\* stats after one iteration: move_count always, loss and tier only when a
\* previous evaluation exists.
UpdateStats(v, stats, player, last, cur) ==
    LET counted == [stats EXCEPT !.move_count = @ + 1]
    IN  IF last # None
        THEN LET cp_loss == CpLoss(v, player, last[1], cur)
             IN  Classify(v, [counted EXCEPT !.total_cp_loss = @ + cp_loss], cp_loss)
        ELSE counted

\* Mutant of UpdateCritical: every scored ply is appended, whatever its loss.
UpdateCriticalNoFloor(v, cms, num, player, fen, last, cur) ==
    IF v = "modular" /\ last # None
    THEN Append(cms, [move_num |-> num, player |-> player,
                      cp_loss |-> CpLoss(v, player, last[1], cur),
                      fen |-> fen, pre_eval |-> last[1], post_eval |-> cur])
    ELSE cms

\* critical_moments after one iteration (the modular variant only keeps them).
UpdateCritical(v, cms, num, player, fen, last, cur) ==
    IF v = "modular" /\ last # None
                     /\ CpLoss(v, player, last[1], cur) > CriticalFloor
    THEN Append(cms, [move_num |-> num, player |-> player,
                      cp_loss |-> CpLoss(v, player, last[1], cur),
                      fen |-> fen, pre_eval |-> last[1], post_eval |-> cur])
    ELSE cms

\* Mutant of InsertDesc: an unstable sort, a later equal key goes first.
InsertDescBeforeEqual(sorted, x) ==
    LET idx == {i \in 1..Len(sorted) : sorted[i].cp_loss <= x.cp_loss}
        at  == IF idx = {} THEN Len(sorted) + 1
               ELSE CHOOSE i \in idx : \A j \in idx : i <= j
    IN  SubSeq(sorted, 1, at - 1) \o <<x>> \o SubSeq(sorted, at, Len(sorted))

\* list.sort(key=cp_loss, reverse=True): stable, equal keys keep their order.
InsertDesc(sorted, x) ==
    LET idx == {i \in 1..Len(sorted) : sorted[i].cp_loss < x.cp_loss}
        at  == IF idx = {} THEN Len(sorted) + 1
               ELSE CHOOSE i \in idx : \A j \in idx : i <= j
    IN  SubSeq(sorted, 1, at - 1) \o <<x>> \o SubSeq(sorted, at, Len(sorted))

RECURSIVE SortDesc(_)
SortDesc(s) ==
    IF s = <<>> THEN <<>>
    ELSE InsertDesc(SortDesc(SubSeq(s, 1, Len(s) - 1)), s[Len(s)])

\* Mutant of TopCritical: the slice keeps the last three of the sorted list.
TopCriticalTail(cms) ==
    LET sorted == SortDesc(cms)
    IN  SubSeq(sorted, IF Len(sorted) < TopK THEN 1 ELSE Len(sorted) - TopK + 1,
               Len(sorted))

\* critical_moments.sort(...); critical_moments[:3]
TopCritical(cms) ==
    LET sorted == SortDesc(cms)
    IN  SubSeq(sorted, 1, IF Len(sorted) < TopK THEN Len(sorted) ELSE TopK)

\* Python's round() of total / count for total >= 0, count > 0 (ties to even).
PyRound(total, count) ==
    LET q == total \div count
        r == total % count
    IN  IF 2 * r < count THEN q
        ELSE IF 2 * r > count THEN q + 1
        ELSE IF q % 2 = 0 THEN q ELSE q + 1

\* Mutant of AvgCpl: the division without its "if count else 0" guard.
AvgCplUnguarded(stats) ==
    IF stats.move_count # 0
    THEN Some(PyRound(stats.total_cp_loss, stats.move_count))
    ELSE None

\* round(total / count) if count else 0.  The division sits inside the try
\* block, so the value is Some(average), or None where it would raise
\* ZeroDivisionError; the conditional expression never lets it.
AvgCpl(stats) ==
    IF stats.move_count # 0
    THEN Some(PyRound(stats.total_cp_loss, stats.move_count))
    ELSE Some(0)

Summary(stats) ==
    [avg_cpl |-> AvgCpl(stats)[1], blunders |-> stats.blunders,
     mistakes |-> stats.mistakes, inaccuracies |-> stats.inaccuracies]

NASummary == [avg_cpl |-> "N/A", blunders |-> "N/A",
              mistakes |-> "N/A", inaccuracies |-> "N/A"]

NoResult == [kind |-> "none"]

\* The normal return value.
ReturnValue(ws, bs, cms) ==
    [kind |-> "summary", white |-> Summary(ws), black |-> Summary(bs),
     critical |-> cms]

\* Mutant of ExceptValue: the except branch hands back what was accumulated.
ExceptValuePartial ==
    [kind |-> "summary",
     white |-> [avg_cpl |-> 0, blunders |-> white_stats.blunders,
                mistakes |-> white_stats.mistakes,
                inaccuracies |-> white_stats.inaccuracies],
     black |-> [avg_cpl |-> 0, blunders |-> black_stats.blunders,
                mistakes |-> black_stats.mistakes,
                inaccuracies |-> black_stats.inaccuracies],
     critical |-> critical_moments]

\* What the except Exception branch returns.
ExceptValue ==
    [kind |-> "placeholder", white |-> NASummary, black |-> NASummary,
     critical |-> <<>>]

\* An exception the function does not catch leaves it without a value.
Unwound == [kind |-> "raised"]

\* Whether the statements after the loop raise inside the try block.
FinishRaises(ws, bs) == AvgCpl(ws) = None \/ AvgCpl(bs) = None

\* ------------------------------------------------------------------- Init
CpScores == {Cp(v) : v \in EvalValues}

InitWith(scores, maxPlies) ==
    /\ variant \in Variants
    /\ nPlies \in 0..maxPlies
    /\ engine_score \in [0..nPlies -> scores]
    /\ oracle = [p \in 0..nPlies |-> WhiteScore(engine_score[p])]
    /\ pc = "start"
    /\ engine = "none"
    /\ board = 0
    /\ white_stats = ZeroStats
    /\ black_stats = ZeroStats
    /\ critical_moments = <<>>
    /\ last_eval = None
    /\ move_num = 0
    /\ queries = <<>>
    /\ ply_log = <<>>
    /\ result = NoResult
    /\ popen_calls = 0
    /\ fault = "none"
    /\ failed_at = 0
    /\ illegal_pushed = FALSE
    /\ run = 1
    /\ first_result = NoResult
    /\ report = "none"
    /\ main_pc = "analysing"

\* The two-call state when nothing runs concurrently.
InitInstIdle == inst = [i \in {1, 2} |-> [pc |-> "idle"]]

\* ------------------------------------------------------ the bot's workflow
MaxArchive == 2
MaxRuns == 3

Urls == {"g1", "g2"}

\* Entries an archive may list: complete ones, one without a url, one
\* without a pgn.
Entries == {[url |-> "g1", pgn |-> TRUE], [url |-> "g2", pgn |-> TRUE],
            [url |-> "", pgn |-> TRUE], [url |-> "g1", pgn |-> FALSE]}

\* Before main's first statement of a run.
InitRun ==
    /\ bot_pc = "idle"
    /\ games = <<>>
    /\ game_i = 0
    /\ seen_urls = {}
    /\ new_seen_urls = {}
    /\ new_games_found = FALSE
    /\ fetch_ret = "none"
    /\ steps = <<>>
    /\ loaded = ""
    /\ email_sent = FALSE
    /\ main_ret = "none"

\* A data directory without seen_games.json and without .pgn files.
InitFiles ==
    /\ archive = <<>>
    /\ seen_file = {}
    /\ latest_pgn = ""
    /\ write_count = [u \in Urls |-> 0]
    /\ seen_before = {}
    /\ saved_now = {}
    /\ has_prev = FALSE
    /\ prev_games = <<>>
    /\ runs = 1

\* The bot when it does not run.
InitBotIdle == InitRun /\ InitFiles /\ force = FALSE

\* ------------------------------------------------- ChessAnalyzer.load_data
MaxRows == 3

EventNames == {"E1", "E2"}

\* Dates of games, as day numbers.
Dates == {1, 2}

\* Arguments that are None (or empty, or 0): Python takes them as false.
NoEvent == ""
NoDate == 0
NoLimit == 0

\* load_data before its first statement, with the arguments a.
InitLoad(rows, a) ==
    /\ db = rows
    /\ args = a
    /\ ld_pc = "start"
    /\ total_rows = 0
    /\ chunks = <<>>
    /\ records_loaded = 0
    /\ offset = 0
    /\ games_df = <<>>

NoArgs == [event_name |-> NoEvent, date_filter |-> NoDate, limit |-> NoLimit,
           last_n |-> NoLimit, chunk_size |-> 1]

\* No load_data call.
InitLoaderIdle == InitLoad(<<>>, NoArgs)

Init == InitWith(CpScores, MaxPlies) /\ InitInstIdle /\ InitBotIdle /\ InitLoaderIdle

\* ---------------------------------------------------------------- actions
\* popen_uci succeeds; the locals are initialised.
StartEngine ==
    /\ pc = "start"
    /\ engine' = "running"
    /\ popen_calls' = popen_calls + 1
    /\ board' = 0
    /\ white_stats' = ZeroStats
    /\ black_stats' = ZeroStats
    /\ critical_moments' = <<>>
    /\ last_eval' = InitialLastEval
    /\ move_num' = 0
    /\ pc' = "loop"
    /\ UNCHANGED <<game, elsewhere, queries, ply_log, result, fault, failed_at,
                   illegal_pushed, rerun, caller>>

\* popen_uci raises: the except branch returns the placeholder.
PopenRaises ==
    /\ pc = "start"
    /\ popen_calls' = popen_calls + 1
    /\ fault' = "popen"
    /\ pc' = "failed"
    /\ result' = ExceptValue
    /\ engine' = engine
    /\ UNCHANGED <<game, elsewhere, locals, queries, ply_log, failed_at, illegal_pushed,
                   rerun, caller>>

\* The body of one iteration of the for loop over game.mainline_moves().
PlyStep ==
    /\ pc = "loop"
    /\ board < nPlies
    /\ LET current_eval   == WhiteScore(engine_score[board])
           current_player == Turn(board)
       IN  /\ queries' = Append(queries, QueryPosition(board))
           /\ board' = board + 1
           /\ move_num' = move_num + 1
           /\ white_stats' = IF current_player = "white"
                             THEN UpdateStats(variant, white_stats, current_player,
                                              last_eval, current_eval)
                             ELSE white_stats
           /\ black_stats' = IF current_player = "black"
                             THEN UpdateStats(variant, black_stats, current_player,
                                              last_eval, current_eval)
                             ELSE black_stats
           /\ critical_moments' = UpdateCritical(variant, critical_moments,
                                                 move_num + 1, current_player, board,
                                                 last_eval, current_eval)
           /\ ply_log' = Append(ply_log,
                  [player |-> current_player,
                   scored |-> last_eval # None,
                   cp_loss |-> IF last_eval # None
                               THEN CpLoss(variant, current_player,
                                           last_eval[1], current_eval)
                               ELSE 0])
           /\ last_eval' = Some(current_eval)
    /\ UNCHANGED <<game, elsewhere, pc, engine, result, popen_calls, fault, failed_at,
                   rerun, caller>>

\* One iteration with a legal move.
ProcessPly ==
    /\ PlyStep
    /\ UNCHANGED illegal_pushed

\* engine.analyse raises (engine died, timed out): caught by except Exception.
AnalyseRaises ==
    /\ pc = "loop"
    /\ board < nPlies
    /\ queries' = Append(queries, QueryPosition(board))
    /\ failed_at' = Len(queries) + 1
    /\ fault' = "analyse"
    /\ pc' = OnAnalyseError
    /\ result' = IF OnAnalyseError = "failed" THEN ExceptValue ELSE result
    /\ engine' = engine
    /\ UNCHANGED <<game, elsewhere, locals, ply_log, popen_calls, illegal_pushed, rerun, caller>>

\* board.san(move) raises on a move that is not legal in the position
\* (modular variant; the unified variant never calls board.san): the query of
\* this iteration was answered, then the except branch runs.
SanRaises ==
    /\ pc = "loop"
    /\ board < nPlies
    /\ variant = "modular"
    /\ queries' = Append(queries, QueryPosition(board))
    /\ fault' = "san"
    /\ pc' = "failed"
    /\ result' = ExceptValue
    /\ engine' = engine
    /\ UNCHANGED <<game, elsewhere, locals, ply_log, popen_calls, failed_at, illegal_pushed,
                   rerun, caller>>

\* The caller cancels (KeyboardInterrupt, a BaseException): except Exception
\* does not catch it and the call unwinds.
Cancel ==
    /\ pc = "loop"
    /\ pc' = "cancelled"
    /\ result' = Unwound
    /\ engine' = engine
    /\ UNCHANGED <<game, elsewhere, locals, queries, ply_log, history, rerun, caller>>

\* After the loop: sort, slice, engine.quit(), averages, return.  An
\* exception raised by the averages is caught by the except branch.
Finish ==
    /\ pc = "loop"
    /\ board = nPlies
    /\ engine' = "quit"
    /\ IF FinishRaises(white_stats, black_stats)
       THEN /\ result' = ExceptValue
            /\ pc' = "failed"
       ELSE /\ result' = ReturnValue(white_stats, black_stats,
                                     IF variant = "modular"
                                     THEN TopCritical(critical_moments) ELSE <<>>)
            /\ pc' = "returned"
    /\ UNCHANGED <<game, elsewhere, locals, queries, ply_log, history, rerun, caller>>

Next ==
    \/ StartEngine
    \/ PopenRaises
    \/ ProcessPly
    \/ AnalyseRaises
    \/ SanRaises
    \/ Cancel
    \/ Finish

Spec == Init /\ [][Next]_vars

\* ------------------------------------------------- illegal moves that pass
\* An illegal move that board.san does not reject (it only fails when the
\* move's from-square is empty) and board.push never checks: the iteration
\* runs as for a legal move.  The unified variant never calls board.san.
IllegalMovePasses ==
    /\ PlyStep
    /\ illegal_pushed' = TRUE

NextIllegal == Next \/ IllegalMovePasses

SpecIllegal == Init /\ [][NextIllegal]_vars

\* ------------------------------------------------------------ second call
\* The caller runs analyze_with_stockfish on the same game again, with a new
\* engine process that answers as the first one did.
Rerun ==
    /\ pc = "returned"
    /\ run = 1
    /\ run' = 2
    /\ first_result' = result
    /\ pc' = "start"
    /\ engine' = "none"
    /\ result' = NoResult
    /\ queries' = <<>>
    /\ ply_log' = <<>>
    /\ popen_calls' = 0
    /\ fault' = "none"
    /\ failed_at' = 0
    /\ UNCHANGED <<game, elsewhere, locals, illegal_pushed, caller>>

NextRerun == Next \/ Rerun

SpecRerun == Init /\ [][NextRerun]_vars

\* ------------------------------------------- generate_game_analysis, main
\* generate_game_analysis after analyze_with_stockfish came back: it formats
\* whatever statistics it got, requests the narratives, writes the report
\* and returns True.
WriteReport ==
    /\ variant = "modular"
    /\ main_pc = "analysing"
    /\ pc \in {"returned", "failed"}
    /\ report' = result.kind
    /\ main_pc' = "analysed"
    /\ UNCHANGED <<game, elsewhere, pc, engine, locals, queries, ply_log, result, history, rerun>>

\* A narrative request or a file write raises: nothing catches it in
\* generate_game_analysis or in main.
ReportRaises ==
    /\ variant = "modular"
    /\ main_pc = "analysing"
    /\ pc \in {"returned", "failed"}
    /\ main_pc' = "crashed"
    /\ UNCHANGED <<game, elsewhere, pc, engine, locals, queries, ply_log, result, history, rerun,
                   report>>

\* main, step 4: analysis_success is True, the email goes out.
SendEmail ==
    /\ main_pc = "analysed"
    /\ main_pc' = "emailed"
    /\ UNCHANGED <<game, elsewhere, pc, engine, locals, queries, ply_log, result, history, rerun,
                   report>>

\* main, step 4: send_analysis_email returns False.
EmailFails ==
    /\ main_pc = "analysed"
    /\ main_pc' = "email_failed"
    /\ UNCHANGED <<game, elsewhere, pc, engine, locals, queries, ply_log, result, history, rerun,
                   report>>

NextPipeline ==
    \/ Next
    \/ WriteReport
    \/ ReportRaises
    \/ SendEmail
    \/ EmailFails

SpecPipeline == Init /\ [][NextPipeline]_vars

\* ------------------------------------------------- engines that report mates
MaxScorePlies == 3

\* Scores of an engine that also reports forced mates and a centipawn score
\* beyond the mate sentinel.
WideScores == {Cp(-350), Cp(0), Cp(12000), Mate(1), Mate(-1), Mate(0)}

InitScores ==
    InitWith(WideScores, MaxScorePlies) /\ InitInstIdle /\ InitBotIdle /\ InitLoaderIdle

SpecScores == InitScores /\ [][Next]_vars

\* ------------------------------------------------------ two concurrent calls
MaxConcPlies == 3

Instances == {1, 2}

\* Evaluations the two engines may report.
ConcValues == {-350, 0}

\* An analysis that runs no game.
InitAnalysisIdle ==
    /\ InitWith({Cp(0)}, 0)
    /\ variant = "modular"

\* A call of analyze_with_stockfish before its first statement: its game, its
\* own engine's answers, and its locals.
NewCall(n, sc) ==
    [nPlies |-> n, scores |-> sc, pc |-> "start", engine |-> "none", board |-> 0,
     white_stats |-> ZeroStats, black_stats |-> ZeroStats,
     critical_moments |-> <<>>, last_eval |-> None, move_num |-> 0,
     fault |-> "none", result |-> NoResult]

\* The locals of a call, the part of its state the loop body works on.
LocalsOf(c) ==
    [board |-> c.board, white_stats |-> c.white_stats,
     black_stats |-> c.black_stats, critical_moments |-> c.critical_moments,
     last_eval |-> c.last_eval, move_num |-> c.move_num]

\* The locals as lines 33-39 initialise them.
InitialLocals ==
    [board |-> 0, white_stats |-> ZeroStats, black_stats |-> ZeroStats,
     critical_moments |-> <<>>, last_eval |-> InitialLastEval, move_num |-> 0]

\* One iteration of the loop on locals l, where the engine reports score and
\* last is the value read from last_eval.
LoopBody(l, score, last) ==
    LET current_eval   == WhiteScore(score)
        current_player == Turn(l.board)
    IN  [board |-> l.board + 1,
         move_num |-> l.move_num + 1,
         white_stats |-> IF current_player = "white"
                         THEN UpdateStats("modular", l.white_stats, current_player,
                                          last, current_eval)
                         ELSE l.white_stats,
         black_stats |-> IF current_player = "black"
                         THEN UpdateStats("modular", l.black_stats, current_player,
                                          last, current_eval)
                         ELSE l.black_stats,
         critical_moments |-> UpdateCritical("modular", l.critical_moments,
                                             l.move_num + 1, current_player,
                                             l.board, last, current_eval),
         last_eval |-> Some(current_eval)]

\* Mutant of LastEvalOf: last_eval is one module-level variable, which holds
\* what the first call stored.
LastEvalOfModule(i) == inst[1].last_eval

\* last_eval as call i reads it: its own local.
LastEvalOf(i) == inst[i].last_eval

WithLocals(c, l) ==
    [c EXCEPT !.board = l.board, !.white_stats = l.white_stats,
              !.black_stats = l.black_stats,
              !.critical_moments = l.critical_moments,
              !.last_eval = l.last_eval, !.move_num = l.move_num]

InitConcurrent ==
    /\ InitAnalysisIdle
    /\ InitBotIdle
    /\ InitLoaderIdle
    /\ \E n1, n2 \in 0..MaxConcPlies :
         \E s1 \in [0..n1 -> {Cp(v) : v \in ConcValues}] :
           \E s2 \in [0..n2 -> {Cp(v) : v \in ConcValues}] :
             inst = [i \in Instances |->
                        IF i = 1 THEN NewCall(n1, s1) ELSE NewCall(n2, s2)]

\* Call i starts its own engine process and initialises its locals.
ConcStart(i) ==
    /\ inst[i].pc = "start"
    /\ inst' = [inst EXCEPT ![i] =
                   WithLocals([@ EXCEPT !.pc = "loop", !.engine = "running"],
                              InitialLocals)]
    /\ UNCHANGED <<analysis, bot, loader>>

\* Call i runs one loop iteration.
ConcPly(i) ==
    /\ inst[i].pc = "loop"
    /\ inst[i].board < inst[i].nPlies
    /\ inst' = [inst EXCEPT ![i] =
                   WithLocals(@, LoopBody(LocalsOf(inst[i]),
                                          inst[i].scores[inst[i].board],
                                          LastEvalOf(i)))]
    /\ UNCHANGED <<analysis, bot, loader>>

\* The engine of call i fails on a query.
ConcAnalyseRaises(i) ==
    /\ inst[i].pc = "loop"
    /\ inst[i].board < inst[i].nPlies
    /\ inst' = [inst EXCEPT ![i] =
                   [@ EXCEPT !.pc = "failed", !.fault = "analyse",
                             !.result = ExceptValue]]
    /\ UNCHANGED <<analysis, bot, loader>>

\* Call i sorts, slices, quits its engine and returns.
ConcFinish(i) ==
    LET c == inst[i]
        raises == FinishRaises(c.white_stats, c.black_stats)
    IN  /\ c.pc = "loop"
        /\ c.board = c.nPlies
        /\ inst' = [inst EXCEPT ![i] =
                       [c EXCEPT !.engine = "quit",
                                 !.pc = IF raises THEN "failed" ELSE "returned",
                                 !.fault = IF raises THEN "finish" ELSE c.fault,
                                 !.result =
                                     IF raises THEN ExceptValue
                                     ELSE ReturnValue(c.white_stats, c.black_stats,
                                              TopCritical(c.critical_moments))]]
        /\ UNCHANGED <<analysis, bot, loader>>

NextConcurrent ==
    \E i \in Instances :
        \/ ConcStart(i)
        \/ ConcPly(i)
        \/ ConcAnalyseRaises(i)
        \/ ConcFinish(i)

SpecConcurrent == InitConcurrent /\ [][NextConcurrent]_vars

\* ------------------------------------------ maignus_bot.main and the fetch
\* Mutant of SkipAnalysis: the --force flag is not looked at.
SkipAnalysisUnforced(new_games, force_analysis) == ~new_games

\* if not new_games and not force_analysis: return False
SkipAnalysis(new_games, force_analysis) == ~new_games /\ ~force_analysis

InitBot ==
    /\ InitAnalysisIdle
    /\ InitInstIdle
    /\ InitLoaderIdle
    /\ InitRun
    /\ InitFiles
    /\ force \in BOOLEAN

\* Chess.com adds a game to the latest archive.
ArchiveGrows ==
    /\ bot_pc = "idle"
    /\ Len(archive) < MaxArchive
    /\ \E e \in Entries : archive' = Append(archive, e)
    /\ UNCHANGED <<seen_file, latest_pgn, force, bot_pc, fetch_locals, fetch_ret, steps,
                   loaded, email_sent, main_ret, fetch_history, runs>>
    /\ UNCHANGED <<analysis, inst, loader>>

\* A new month begins: the latest archive is a new, empty one.
ArchiveRolls ==
    /\ bot_pc = "idle"
    /\ archive # <<>>
    /\ archive' = <<>>
    /\ UNCHANGED <<seen_file, latest_pgn, force, bot_pc, fetch_locals, fetch_ret, steps,
                   loaded, email_sent, main_ret, fetch_history, runs>>
    /\ UNCHANGED <<analysis, inst, loader>>

\* fetch_and_save_pgns up to its loop, on the list got: with no games it
\* returns False at once, otherwise it loads the seen set.
FetchBegin(got) ==
    /\ bot_pc = "idle"
    /\ steps' = <<"fetch">>
    /\ games' = got
    /\ seen_before' = seen_file
    /\ saved_now' = {}
    /\ IF got = <<>>
       THEN /\ fetch_ret' = "false"
            /\ bot_pc' = "fetched"
            /\ UNCHANGED <<game_i, seen_urls, new_seen_urls, new_games_found>>
       ELSE /\ seen_urls' = seen_file
            /\ new_seen_urls' = seen_file
            /\ new_games_found' = FALSE
            /\ game_i' = 1
            /\ bot_pc' = "fetch_loop"
            /\ UNCHANGED fetch_ret
    /\ UNCHANGED <<archive, seen_file, latest_pgn, force, loaded, email_sent, main_ret,
                   write_count, has_prev, prev_games, runs>>
    /\ UNCHANGED <<analysis, inst, loader>>

\* main calls the fetch and the archive request answers.
MainFetch == FetchBegin(archive)

\* The archive request answers with a status other than 200: no games.
FetchApiError ==
    /\ archive # <<>>
    /\ FetchBegin(<<>>)

\* A request raises (no connection): nothing catches it, main unwinds.
FetchRaises ==
    /\ bot_pc = "idle"
    /\ steps' = <<"fetch">>
    /\ main_ret' = "raised"
    /\ bot_pc' = "done"
    /\ UNCHANGED <<archive, seen_file, latest_pgn, force, fetch_locals, fetch_ret,
                   loaded, email_sent, fetch_history, runs>>
    /\ UNCHANGED <<analysis, inst, loader>>

\* One iteration of "for game in games".
FetchGame ==
    /\ bot_pc = "fetch_loop"
    /\ game_i <= Len(games)
    /\ LET url == games[game_i].url
           pgn == games[game_i].pgn
       IN  IF ~pgn \/ url = ""
           THEN UNCHANGED <<latest_pgn, new_seen_urls, new_games_found, write_count,
                            saved_now>>
           ELSE IF url \notin seen_urls
                THEN /\ latest_pgn' = url
                     /\ write_count' = [write_count EXCEPT ![url] = @ + 1]
                     /\ saved_now' = saved_now \cup {url}
                     /\ new_seen_urls' = new_seen_urls \cup {url}
                     /\ new_games_found' = TRUE
                ELSE UNCHANGED <<latest_pgn, new_seen_urls, new_games_found,
                                 write_count, saved_now>>
    /\ game_i' = game_i + 1
    /\ UNCHANGED <<archive, seen_file, force, bot_pc, games, seen_urls, fetch_ret, steps,
                   loaded, email_sent, main_ret, seen_before, has_prev, prev_games,
                   runs>>
    /\ UNCHANGED <<analysis, inst, loader>>

\* After the loop: the seen set is written back and the flag returned.
FetchEnd ==
    /\ bot_pc = "fetch_loop"
    /\ game_i > Len(games)
    /\ seen_file' = new_seen_urls
    /\ fetch_ret' = IF new_games_found THEN "true" ELSE "false"
    /\ bot_pc' = "fetched"
    /\ UNCHANGED <<archive, latest_pgn, force, fetch_locals, steps, loaded, email_sent,
                   main_ret, write_count, seen_before, saved_now, has_prev, prev_games,
                   runs>>
    /\ UNCHANGED <<analysis, inst, loader>>

\* main: no new games and no --force: return False.
NoNewGames ==
    /\ bot_pc = "fetched"
    /\ SkipAnalysis(fetch_ret = "true", force)
    /\ main_ret' = "false"
    /\ bot_pc' = "done"
    /\ UNCHANGED <<archive, seen_file, latest_pgn, force, fetch_locals, fetch_ret, steps,
                   loaded, email_sent, fetch_history, runs>>
    /\ UNCHANGED <<analysis, inst, loader>>

\* main, step 2: the most recently modified .pgn file is loaded.
LoadLatest ==
    /\ bot_pc = "fetched"
    /\ ~SkipAnalysis(fetch_ret = "true", force)
    /\ latest_pgn # ""
    /\ steps' = Append(steps, "load")
    /\ loaded' = latest_pgn
    /\ bot_pc' = "loaded"
    /\ UNCHANGED <<archive, seen_file, latest_pgn, force, fetch_locals, fetch_ret,
                   email_sent, main_ret, fetch_history, runs>>
    /\ UNCHANGED <<analysis, inst, loader>>

\* main, step 2: get_latest_pgn_path finds no file: return False.
NoPgnFile ==
    /\ bot_pc = "fetched"
    /\ ~SkipAnalysis(fetch_ret = "true", force)
    /\ latest_pgn = ""
    /\ steps' = Append(steps, "load")
    /\ main_ret' = "false"
    /\ bot_pc' = "done"
    /\ UNCHANGED <<archive, seen_file, latest_pgn, force, fetch_locals, fetch_ret,
                   loaded, email_sent, fetch_history, runs>>
    /\ UNCHANGED <<analysis, inst, loader>>

\* main, step 3: generate_game_analysis returns True (its only return).
AnalysisSucceeds ==
    /\ bot_pc = "loaded"
    /\ steps' = Append(steps, "analyse")
    /\ bot_pc' = "analysed"
    /\ UNCHANGED <<archive, seen_file, latest_pgn, force, fetch_locals, fetch_ret,
                   loaded, email_sent, main_ret, fetch_history, runs>>
    /\ UNCHANGED <<analysis, inst, loader>>

\* main, step 3: a narrative request or a file write raises inside
\* generate_game_analysis: nothing catches it, main unwinds.
AnalysisRaises ==
    /\ bot_pc = "loaded"
    /\ steps' = Append(steps, "analyse")
    /\ main_ret' = "raised"
    /\ bot_pc' = "done"
    /\ UNCHANGED <<archive, seen_file, latest_pgn, force, fetch_locals, fetch_ret,
                   loaded, email_sent, fetch_history, runs>>
    /\ UNCHANGED <<analysis, inst, loader>>

\* main, step 4: send_analysis_email returns True, main returns True.
MainSendEmail ==
    /\ bot_pc = "analysed"
    /\ steps' = Append(steps, "email")
    /\ email_sent' = TRUE
    /\ main_ret' = "true"
    /\ bot_pc' = "done"
    /\ UNCHANGED <<archive, seen_file, latest_pgn, force, fetch_locals, fetch_ret,
                   loaded, fetch_history, runs>>
    /\ UNCHANGED <<analysis, inst, loader>>

\* main, step 4: send_analysis_email returns False, main returns False.
MainEmailFails ==
    /\ bot_pc = "analysed"
    /\ steps' = Append(steps, "email")
    /\ main_ret' = "false"
    /\ bot_pc' = "done"
    /\ UNCHANGED <<archive, seen_file, latest_pgn, force, fetch_locals, fetch_ret,
                   loaded, email_sent, fetch_history, runs>>
    /\ UNCHANGED <<analysis, inst, loader>>

\* The script is started again, with or without --force.
NewRun ==
    /\ bot_pc = "done"
    /\ runs < MaxRuns
    /\ runs' = runs + 1
    /\ force' \in BOOLEAN
    /\ bot_pc' = "idle"
    /\ games' = <<>>
    /\ game_i' = 0
    /\ seen_urls' = {}
    /\ new_seen_urls' = {}
    /\ new_games_found' = FALSE
    /\ fetch_ret' = "none"
    /\ steps' = <<>>
    /\ loaded' = ""
    /\ email_sent' = FALSE
    /\ main_ret' = "none"
    /\ has_prev' = (fetch_ret # "none")
    /\ prev_games' = games
    /\ UNCHANGED <<archive, seen_file, latest_pgn, write_count, seen_before, saved_now>>
    /\ UNCHANGED <<analysis, inst, loader>>

NextBot ==
    \/ ArchiveGrows
    \/ ArchiveRolls
    \/ MainFetch
    \/ FetchApiError
    \/ FetchRaises
    \/ FetchGame
    \/ FetchEnd
    \/ NoNewGames
    \/ LoadLatest
    \/ NoPgnFile
    \/ AnalysisSucceeds
    \/ AnalysisRaises
    \/ MainSendEmail
    \/ MainEmailFails
    \/ NewRun

SpecBot == InitBot /\ [][NextBot]_vars

\* ------------------------------------------------- ChessAnalyzer.load_data
\* Mutant of WhereClause: the date filter is looked at first.
WhereClauseDateFirst(event_name, date_filter) ==
    IF date_filter # NoDate THEN [event |-> NoEvent, since |-> date_filter]
    ELSE IF event_name # NoEvent THEN [event |-> event_name, since |-> NoDate]
    ELSE [event |-> NoEvent, since |-> NoDate]

\* where_conditions: "event_name = ?" if event_name is given, else
\* "date >= ?" if date_filter is given, else none.
WhereClause(event_name, date_filter) ==
    IF event_name # NoEvent THEN [event |-> event_name, since |-> NoDate]
    ELSE IF date_filter # NoDate THEN [event |-> NoEvent, since |-> date_filter]
    ELSE [event |-> NoEvent, since |-> NoDate]

\* Row numbers the WHERE clause w selects.
Selected(w) ==
    {r \in 1..Len(db) :
        /\ w.event # NoEvent => db[r].event_name = w.event
        /\ w.since # NoDate => db[r].date >= w.since}

\* The orders "ORDER BY date DESC" may give the rows of ids: rows of one date
\* come in whatever order the database picks.
Orderings(ids) ==
    {q \in [1..Cardinality(ids) -> ids] :
        /\ \A i, j \in 1..Cardinality(ids) : i # j => q[i] # q[j]
        /\ \A i, j \in 1..Cardinality(ids) : i < j => db[q[i]].date >= db[q[j]].date}

Min(a, b) == IF a <= b THEN a ELSE b

\* OFFSET off LIMIT lim on an ordered result q (lim = NoLimit: no LIMIT).
Page(q, off, lim) ==
    SubSeq(q, off + 1, IF lim = NoLimit THEN Len(q) ELSE Min(Len(q), off + lim))

\* actual_limit = last_n or limit
ActualLimit == IF args.last_n # NoLimit THEN args.last_n ELSE args.limit

RECURSIVE Concat(_)
Concat(cs) == IF cs = <<>> THEN <<>> ELSE cs[1] \o Concat(Tail(cs))

InitLoader ==
    /\ InitAnalysisIdle
    /\ InitInstIdle
    /\ InitBotIdle
    /\ \E n \in 0..MaxRows :
         \E rows \in [1..n -> [event_name : EventNames, date : Dates]] :
           \E a \in [event_name : EventNames \cup {NoEvent},
                     date_filter : Dates \cup {NoDate},
                     limit : {NoLimit, 1}, last_n : {NoLimit, 2},
                     chunk_size : {1, 2}] :
             InitLoad(rows, a)

\* The COUNT(*) query; with no rows the frame is empty and the call returns.
LoadCount ==
    /\ ld_pc = "start"
    /\ LET n == Cardinality(Selected(WhereClause(args.event_name, args.date_filter)))
       IN  /\ total_rows' = n
           /\ ld_pc' = IF n = 0 THEN "done"
                       ELSE IF n > args.chunk_size /\ ActualLimit = NoLimit
                            THEN "chunks" ELSE "single"
    /\ UNCHANGED <<db, args, chunks, records_loaded, offset, games_df>>
    /\ UNCHANGED <<analysis, inst, bot>>

\* The one full query, with its LIMIT.
LoadSingle ==
    /\ ld_pc = "single"
    /\ \E q \in Orderings(Selected(WhereClause(args.event_name, args.date_filter))) :
           games_df' = Page(q, 0, ActualLimit)
    /\ ld_pc' = "done"
    /\ UNCHANGED <<db, args, total_rows, chunks, records_loaded, offset>>
    /\ UNCHANGED <<analysis, inst, bot>>

\* One chunk query of the while loop.
LoadChunk ==
    /\ ld_pc = "chunks"
    /\ records_loaded < total_rows
    /\ LET records_needed == Min(args.chunk_size, total_rows - records_loaded)
       IN  \E q \in Orderings(Selected(WhereClause(args.event_name,
                                                   args.date_filter))) :
               LET chunk_df == Page(q, offset, records_needed)
               IN  /\ chunks' = Append(chunks, chunk_df)
                   /\ records_loaded' = records_loaded + Len(chunk_df)
                   /\ offset' = offset + records_needed
    /\ UNCHANGED <<db, args, ld_pc, total_rows, games_df>>
    /\ UNCHANGED <<analysis, inst, bot>>

\* The loop is over: pd.concat(chunks).
LoadConcat ==
    /\ ld_pc = "chunks"
    /\ records_loaded >= total_rows
    /\ games_df' = Concat(chunks)
    /\ ld_pc' = "done"
    /\ UNCHANGED <<db, args, total_rows, chunks, records_loaded, offset>>
    /\ UNCHANGED <<analysis, inst, bot>>

NextLoader ==
    \/ LoadCount
    \/ LoadSingle
    \/ LoadChunk
    \/ LoadConcat

SpecLoader == InitLoader /\ [][NextLoader]_vars


\* ======================================================================
\* Properties
\* ======================================================================

\* MoveLoss of ply k as the specification defines it: the drop between the
\* evaluations of the positions right before and right after ply k, charged to
\* the side that played ply k.
SpecMoveLoss(k) ==
    IF Turn(k - 1) = "white" THEN Max(0, oracle[k - 1] - oracle[k])
                             ELSE Max(0, oracle[k] - oracle[k - 1])

Exited == pc \in {"returned", "failed", "cancelled"}

Queried == {queries[i] : i \in 1..Len(queries)}

PliesOf(side) == {k \in 1..Len(ply_log) : ply_log[k].player = side}

StatsOf(side) == IF side = "white" THEN white_stats ELSE black_stats

\* ---------------------------------------------------------------- C1
ScenarioC1 ==
    /\ variant = "modular"
    /\ nPlies = 2
    /\ oracle = [p \in 0..2 |-> IF p = 0 THEN 0 ELSE -350]
    /\ engine_score = [p \in 0..2 |-> Cp(oracle[p])]

\* C1: the two-ply game with evaluations 0, -350, -350 yields one White
\* blunder with loss 350, nothing for Black, and exactly one critical moment
\* (White, ply 1, loss 350).
C1_TwoPlyScenario ==
    (ScenarioC1 /\ pc = "returned") =>
        /\ result.white.blunders = 1
        /\ white_stats.total_cp_loss = 350
        /\ result.black.blunders = 0
        /\ result.black.mistakes = 0
        /\ result.black.inaccuracies = 0
        /\ black_stats.total_cp_loss = 0
        /\ Len(result.critical) = 1
        /\ result.critical[1].player = "white"
        /\ result.critical[1].move_num = 1
        /\ result.critical[1].cp_loss = 350

\* ---------------------------------------------------------------- C2
\* C2: for every ply, the first included, the loss added to the mover's total
\* is SpecMoveLoss of that same ply, and the side charged is the side that
\* played it.
C2_LossIsOwnPlyDelta ==
    variant = "modular" =>
        \A k \in 1..Len(ply_log) :
            /\ ply_log[k].player = Turn(k - 1)
            /\ ply_log[k].cp_loss = SpecMoveLoss(k)

C4_EngineReleasedOnEveryExit ==
    (Exited /\ engine # "none") => engine = "quit"

\* ---------------------------------------------------------------- C5
\* C5: a game of N plies costs exactly N + 1 evaluator queries, the first of
\* them the starting position, also when N = 0.
C5_QueriesArePliesPlusOne ==
    (variant = "modular" /\ pc = "returned") =>
        /\ Len(queries) = nPlies + 1
        /\ queries[1] = 0

\* ---------------------------------------------------------------- C6
\* C6: for every ply k the position reached by move k is submitted to the
\* evaluator; in particular the position after the final ply is evaluated.
C6_PostMovePositionsQueried ==
    (variant = "modular" /\ pc = "returned") =>
        \A k \in 1..nPlies : k \in Queried

\* ---------------------------------------------------------------- C7
\* C7: in every reachable state each side's total_cp_loss is >= 0, and every
\* loss added to a total or stored in a critical moment is >= 0.
C7_LossesNonNegative ==
    /\ white_stats.total_cp_loss >= 0
    /\ black_stats.total_cp_loss >= 0
    /\ \A k \in 1..Len(ply_log) : ply_log[k].cp_loss >= 0
    /\ \A i \in 1..Len(critical_moments) : critical_moments[i].cp_loss >= 0
    /\ pc = "returned" =>
           \A i \in 1..Len(result.critical) : result.critical[i].cp_loss >= 0

\* Both sides have lost something, and a move after which the evaluation
\* moved in the mover's favour was scored 0.
C7_Witness ==
    /\ variant = "modular"
    /\ pc = "returned"
    /\ white_stats.total_cp_loss > 0
    /\ black_stats.total_cp_loss > 0
    /\ result.critical # <<>>
    /\ \E k \in 2..Len(ply_log) :
           /\ ply_log[k].cp_loss = 0
           /\ oracle[k - 1] # oracle[k - 2]

\* ---------------------------------------------------------------- C8
\* Plies of a side that raised none of its three counters: tier OK.
OkPlies(side) ==
    {k \in PliesOf(side) :
        \/ ~ply_log[k].scored
        \/ ply_log[k].cp_loss <= InaccuracyThreshold(variant)}

\* C8: for each side the tier counts (OK, inaccuracy, mistake, blunder) sum to
\* the side's ply count, and the three counters count exactly the plies whose
\* loss falls in their tier, so no ply is counted in two tiers.
C8_TiersPartitionPlies ==
    \A side \in {"white", "black"} :
        LET st == StatsOf(side)
        IN  /\ st.move_count = Cardinality(PliesOf(side))
            /\ st.blunders + st.mistakes + st.inaccuracies
                 + Cardinality(OkPlies(side)) = st.move_count
            /\ st.blunders = Cardinality({k \in PliesOf(side) :
                   ply_log[k].scored /\ ply_log[k].cp_loss > BlunderThreshold})
            /\ st.mistakes = Cardinality({k \in PliesOf(side) :
                   /\ ply_log[k].scored
                   /\ ply_log[k].cp_loss > MistakeThreshold(variant)
                   /\ ply_log[k].cp_loss <= BlunderThreshold})
            /\ st.inaccuracies = Cardinality({k \in PliesOf(side) :
                   /\ ply_log[k].scored
                   /\ ply_log[k].cp_loss > InaccuracyThreshold(variant)
                   /\ ply_log[k].cp_loss <= MistakeThreshold(variant)})

\* A finished game in which one side has plies in all four tiers' range:
\* a blunder, a mistake, an inaccuracy and an OK ply are all counted.
C8_Witness ==
    /\ pc = "returned"
    /\ variant = "modular"
    /\ white_stats.blunders + black_stats.blunders > 0
    /\ white_stats.mistakes + black_stats.mistakes > 0
    /\ white_stats.inaccuracies + black_stats.inaccuracies > 0
    /\ OkPlies("black") # {}

\* ---------------------------------------------------------------- C9
ZeroSummary == [avg_cpl |-> 0, blunders |-> 0, mistakes |-> 0, inaccuracies |-> 0]

\* C9: a side with zero plies gets average loss 0 and the averages never
\* raise: no call fails after the engine was shut down.  A zero-move game
\* whose engine started returns move counts 0, average 0 and all tier counts
\* 0 for both sides, and an empty critical-moment list.
C9_ZeroPliesAverageZero ==
    /\ ~(pc = "failed" /\ engine = "quit")
    /\ pc = "returned" =>
           /\ white_stats.move_count = 0 => result.white.avg_cpl = 0
           /\ black_stats.move_count = 0 => result.black.avg_cpl = 0
    /\ (nPlies = 0 /\ engine # "none" /\ pc \in {"returned", "failed"}) =>
           /\ pc = "returned"
           /\ white_stats.move_count = 0
           /\ black_stats.move_count = 0
           /\ result.white = ZeroSummary
           /\ result.black = ZeroSummary
           /\ result.critical = <<>>

\* The zero-move game has returned.
C9_Witness ==
    /\ nPlies = 0
    /\ pc = "returned"
    /\ result.kind = "summary"
    /\ white_stats.move_count = 0
    /\ black_stats.move_count = 0

\* ---------------------------------------------------------------- C10
LossyPlies == {k \in 1..nPlies : SpecMoveLoss(k) > CriticalFloor}

Listed == {result.critical[i].move_num : i \in 1..Len(result.critical)}

\* C10: the returned list is the global top 3 by MoveLoss over all plies: its
\* length is min(3, number of plies whose MoveLoss exceeds 10), each entry
\* carries the MoveLoss of its ply, and every ply left out has MoveLoss <= 10
\* or <= the loss of every listed entry.
C10_ListIsGlobalTopK ==
    (variant = "modular" /\ pc = "returned") =>
        /\ Len(result.critical) =
               (IF Cardinality(LossyPlies) < TopK THEN Cardinality(LossyPlies)
                                                  ELSE TopK)
        /\ \A i \in 1..Len(result.critical) :
               result.critical[i].cp_loss = SpecMoveLoss(result.critical[i].move_num)
        /\ \A k \in (1..nPlies) \ Listed :
               \/ SpecMoveLoss(k) <= CriticalFloor
               \/ \A i \in 1..Len(result.critical) :
                      SpecMoveLoss(k) <= result.critical[i].cp_loss

\* ---------------------------------------------------------------- C11
\* Plies whose computed loss exceeds the floor.
AboveFloor == {k \in 1..Len(ply_log) :
                  ply_log[k].scored /\ ply_log[k].cp_loss > CriticalFloor}

\* C11: the returned list has at most 3 entries, none with a loss at or below
\* the floor of 10, and is exactly as long as min(3, plies above the floor):
\* it is never padded with plies at or below the floor.
C11_AtMostKAboveFloor ==
    (variant = "modular" /\ pc = "returned") =>
        /\ Len(result.critical) <= TopK
        /\ \A i \in 1..Len(result.critical) :
               result.critical[i].cp_loss > CriticalFloor
        /\ Len(result.critical) =
               (IF Cardinality(AboveFloor) < TopK THEN Cardinality(AboveFloor)
                                                  ELSE TopK)

\* A five-ply game with four scored plies of which only two exceed the floor:
\* the list has two entries.
C11_Witness ==
    /\ variant = "modular"
    /\ pc = "returned"
    /\ nPlies = 5
    /\ Len(result.critical) = 2
    /\ \E k \in 2..5 : ply_log[k].cp_loss <= CriticalFloor

\* ---------------------------------------------------------------- C12
\* Entry a ranks before entry b: greater loss, or equal loss and earlier ply.
RanksBefore(a, b) ==
    \/ a.cp_loss > b.cp_loss
    \/ a.cp_loss = b.cp_loss /\ a.move_num < b.move_num

Dropped == {i \in 1..Len(critical_moments) :
               critical_moments[i].move_num \notin Listed}

\* C12: the returned list is ordered by descending loss, equal losses by
\* ascending ply index, and every candidate left out ranks after every entry
\* kept, so of plies tied for the last slot the earliest is kept.
C12_DescendingEarliestFirst ==
    (variant = "modular" /\ pc = "returned") =>
        /\ \A i, j \in 1..Len(result.critical) :
               i < j => RanksBefore(result.critical[i], result.critical[j])
        /\ \A d \in Dropped : \A i \in 1..Len(result.critical) :
               RanksBefore(result.critical[i], critical_moments[d])

\* Four candidates, and the one left out ties with the last one kept.
C12_Witness ==
    /\ variant = "modular"
    /\ pc = "returned"
    /\ Len(critical_moments) = 4
    /\ Len(result.critical) = 3
    /\ \E d \in Dropped :
           critical_moments[d].cp_loss = result.critical[3].cp_loss
    /\ result.critical[1].cp_loss > result.critical[3].cp_loss

\* ---------------------------------------------------------------- C13
\* C13: when the evaluator failed during the game, generate_game_analysis
\* requests no narratives and writes no report, does not report success, and
\* main sends no email.
C13_EvaluatorFailureAbortsGame ==
    fault = "analyse" =>
        /\ report = "none"
        /\ main_pc \in {"analysing", "crashed"}

\* ---------------------------------------------------------------- C14
\* C14: the engine is started exactly once, before the first query, and after
\* a query raised no further query is issued: the query that raised is the
\* last one, it is not repeated, and no second engine is started.
C14_OneEngineNoRetry ==
    /\ popen_calls <= 1
    /\ queries # <<>> => (popen_calls = 1 /\ engine # "none")
    /\ failed_at # 0 =>
           /\ Len(queries) = failed_at
           /\ \A i \in 1..(failed_at - 1) : queries[i] # queries[failed_at]
           /\ popen_calls = 1

\* The third query raised after two plies were processed.
C14_Witness ==
    /\ failed_at = 3
    /\ fault = "analyse"
    /\ Len(ply_log) = 2
    /\ popen_calls = 1

\* ---------------------------------------------------------------- C15
\* C15: the i-th query submits the position reached by exactly the first i - 1
\* moves, so queries come in move order and no position is queried twice.
C15_QueriesInMoveOrder ==
    /\ \A i \in 1..Len(queries) : queries[i] = i - 1
    /\ \A i, j \in 1..Len(queries) : i # j => queries[i] # queries[j]

\* A five-ply game was analysed to the end.
C15_Witness ==
    /\ pc = "returned"
    /\ nPlies = 5
    /\ Len(queries) = 5

\* ---------------------------------------------------------------- C16
\* C16: a second call on the same move list, with a fresh engine that answers
\* as the first did, returns what the first call returned.
C16_RerunIdentical ==
    (run = 2 /\ pc = "returned") => result = first_result

\* The re-run of a game with tier counts and critical moments has returned.
C16_Witness ==
    /\ run = 2
    /\ pc = "returned"
    /\ variant = "modular"
    /\ first_result.critical # <<>>
    /\ first_result.black.blunders > 0
    /\ first_result.white.avg_cpl > 0

\* ---------------------------------------------------------------- C17
\* C17: every critical-moment record describes one ply: fen is the position
\* before its move by its player, pre_eval the evaluation of that position,
\* post_eval the evaluation of the position after the move, and cp_loss the
\* MoveLoss from those two.
C17_RecordDescribesOnePly ==
    variant = "modular" =>
        \A i \in 1..Len(critical_moments) :
            LET m == critical_moments[i]
            IN  /\ m.fen = m.move_num - 1
                /\ m.player = Turn(m.fen)
                /\ m.pre_eval = oracle[m.fen]
                /\ m.post_eval = oracle[m.move_num]
                /\ m.cp_loss = SpecMoveLoss(m.move_num)

\* ---------------------------------------------------------------- C18
\* C18: both analyze_with_stockfish functions put every loss in the same
\* tier: for each loss that occurs, the same counter is raised.
C18_SameTierInBothAnalyzers ==
    \A k \in 1..Len(ply_log) :
        ply_log[k].scored =>
            Classify("modular", ZeroStats, ply_log[k].cp_loss)
              = Classify("unified", ZeroStats, ply_log[k].cp_loss)

\* ---------------------------------------------------------------- C19
\* Evaluations the call has obtained so far.
Obtained == {p \in 0..nPlies : p < board}

\* C19 as stated: every evaluation lies in [-10000, 10000] and every loss in
\* [0, 20000].
C19_EvaluationsBounded ==
    /\ last_eval # None => (last_eval[1] >= -10000 /\ last_eval[1] <= 10000)
    /\ \A k \in 1..Len(ply_log) :
           ply_log[k].cp_loss >= 0 /\ ply_log[k].cp_loss <= 20000

\* C19 as amended: a forced mate becomes a sentinel of magnitude at most
\* 10000; centipawn scores are used as reported, so when the scores obtained
\* so far are mates or centipawn scores within [-10000, 10000], every
\* evaluation lies in [-10000, 10000] and every loss in [0, 20000].
C19_MatesBoundedCpAsReported ==
    /\ (last_eval # None /\ engine_score[board - 1].kind = "mate") =>
           (last_eval[1] >= -10000 /\ last_eval[1] <= 10000)
    /\ (last_eval # None /\ engine_score[board - 1].kind = "cp") =>
           last_eval[1] = engine_score[board - 1].v
    /\ (\A p \in Obtained : engine_score[p].kind = "cp" =>
            (engine_score[p].v >= -10000 /\ engine_score[p].v <= 10000)) =>
           /\ last_eval # None =>
                  (last_eval[1] >= -10000 /\ last_eval[1] <= 10000)
           /\ \A k \in 1..Len(ply_log) :
                  ply_log[k].cp_loss >= 0 /\ ply_log[k].cp_loss <= 20000

\* A mate for White followed by a mate for Black: the loss is close to 20000.
C19_Witness ==
    /\ variant = "modular"
    /\ pc = "returned"
    /\ \E k \in 2..Len(ply_log) :
           /\ engine_score[k - 2].kind = "mate"
           /\ engine_score[k - 1].kind = "mate"
           /\ ply_log[k].cp_loss > 19000

\* ---------------------------------------------------------------- C20
\* C20: an illegal move in the move list rejects the whole game with a fatal
\* error: the call raises, returns no statistics and no critical moments, and
\* the analysis does not go past the illegal move.
C20_IllegalMoveRejectsGame ==
    /\ ~illegal_pushed
    /\ fault = "san" => result.kind = "raised"

\* ---------------------------------------------------------------- C21
\* The locals of a call that runs alone, after k iterations on the answers sc.
RECURSIVE AloneLocals(_, _)
AloneLocals(sc, k) ==
    IF k = 0 THEN InitialLocals
    ELSE LET l == AloneLocals(sc, k - 1)
         IN  LoopBody(l, sc[k - 1], l.last_eval)

\* What a call returns when it runs alone on nPlies plies with the answers sc.
AloneResult(sc, n) ==
    LET l == AloneLocals(sc, n)
    IN  ReturnValue(l.white_stats, l.black_stats, TopCritical(l.critical_moments))

\* C21: of two calls on different games that run in interleaved steps, each
\* with its own engine, each holds at every step the locals it would hold
\* alone, and returns the statistics and critical moments it would return
\* alone.
C21_ConcurrentCallsIndependent ==
    \A i \in Instances :
        /\ inst[i].pc = "loop" =>
               LocalsOf(inst[i]) = AloneLocals(inst[i].scores, inst[i].board)
        /\ inst[i].pc = "returned" =>
               inst[i].result = AloneResult(inst[i].scores, inst[i].nPlies)

\* The first call has returned critical moments while the second, on another
\* game, is in the middle of its loop with a critical moment of its own.
C21_Witness ==
    /\ inst[1].pc = "returned"
    /\ inst[1].result.critical # <<>>
    /\ inst[2].pc = "loop"
    /\ inst[2].board = 2
    /\ inst[2].board < inst[2].nPlies
    /\ inst[2].critical_moments # <<>>
    /\ inst[2].scores # inst[1].scores
    /\ inst[2].last_eval # inst[1].last_eval

\* ---------------------------------------------------------------- C22
StepsDone == {steps[i] : i \in 1..Len(steps)}

\* C22: in a run without --force whose fetch reported no new games, main
\* loads and analyses nothing, sends no email and returns False; in a run with
\* --force whose fetch reported no new games, the latest saved game, if there
\* is one, is loaded and handed to the analysis.
C22_NoNewGamesStopsUnlessForced ==
    /\ (fetch_ret = "false" /\ ~force) =>
           /\ StepsDone = {"fetch"}
           /\ loaded = ""
           /\ ~email_sent
           /\ bot_pc = "done" => main_ret = "false"
    /\ (fetch_ret = "false" /\ force /\ latest_pgn # "" /\ bot_pc = "done") =>
           /\ "analyse" \in StepsDone
           /\ loaded = latest_pgn

\* A second run, forced, found nothing new, analysed the game the first run
\* had saved and sent the email.
C22_Witness ==
    /\ runs = 2
    /\ force
    /\ fetch_ret = "false"
    /\ seen_before # {}
    /\ bot_pc = "done"
    /\ loaded = latest_pgn
    /\ main_ret = "true"

\* ---------------------------------------------------------------- C23
StepOrder == <<"fetch", "load", "analyse", "email">>

\* C23: main enters its steps in the order fetch, load, analyse, email; the
\* email step is entered only after the analysis of the loaded game returned
\* success; main returns True only if the email was sent; and a run that ended
\* after a failing step, that is without the email sent, returned False.
C23_StepsInOrderFalseOnFailure ==
    /\ steps = SubSeq(StepOrder, 1, Len(steps))
    /\ "email" \in StepsDone => ("analyse" \in StepsDone /\ loaded # "")
    /\ main_ret = "true" => email_sent
    /\ (bot_pc = "done" /\ ~email_sent) => main_ret = "false"

\* ---------------------------------------------------------------- C30
\* C30: a file is written only for a URL not recorded as seen, so no URL's
\* file is written twice over all calls; a call returns True exactly when it
\* saved a game; the seen set stored after a call is the one before plus the
\* URLs the call saved; and a call on the archive the previous call saw saves
\* nothing and returns False.
C30_EachUrlSavedOnce ==
    /\ saved_now \cap seen_before = {}
    /\ \A u \in Urls : write_count[u] <= 1
    /\ fetch_ret # "none" =>
           /\ (fetch_ret = "true") = (saved_now # {})
           /\ seen_file = seen_before \cup saved_now
    /\ (fetch_ret # "none" /\ has_prev /\ games = prev_games) =>
           (saved_now = {} /\ fetch_ret = "false")

\* ---------------------------------------------------------------- C24
\* Row numbers load_data has fetched so far, on either path.
LoadedRows ==
    {games_df[i] : i \in 1..Len(games_df)}
      \cup UNION {{chunks[c][i] : i \in 1..Len(chunks[c])} : c \in 1..Len(chunks)}

\* Rows of the event asked for, whatever their date.
RowsOfEvent == {r \in 1..Len(db) : db[r].event_name = args.event_name}

\* C24: load_data with event_name = E loads only rows whose event_name is E,
\* on the single-query and on the chunked path, and the event filter takes
\* priority over a date_filter passed with it: the rows counted are all rows
\* of the event, the date plays no part, and without a limit the single
\* query loads every one of them.
C24_EventFilterOnly ==
    args.event_name # NoEvent =>
        /\ \A r \in LoadedRows : db[r].event_name = args.event_name
        /\ ld_pc # "start" => total_rows = Cardinality(RowsOfEvent)
        /\ (ld_pc = "done" /\ ActualLimit = NoLimit
              /\ total_rows <= args.chunk_size) => LoadedRows = RowsOfEvent

\* A chunked load with an event and a date filter has finished: it read two
\* chunks, loaded a row older than the date filter, and left out a row of
\* another event.
C24_Witness ==
    /\ ld_pc = "done"
    /\ args.event_name = "E1"
    /\ args.date_filter = 2
    /\ Len(chunks) = 2
    /\ \E r \in LoadedRows : db[r].date < args.date_filter
    /\ \E r \in 1..Len(db) : db[r].event_name = "E2" /\ db[r].date = 2

\* ---------------------------------------------------------------- C25
\* The statistics b are those of a after one more move of that side.
OneMoreMove(a, b) ==
    /\ b.move_count = a.move_count + 1
    /\ b.total_cp_loss >= a.total_cp_loss
    /\ b.blunders >= a.blunders
    /\ b.mistakes >= a.mistakes
    /\ b.inaccuracies >= a.inaccuracies

\* C25: a step that processes one ply leaves the statistics of the side that
\* did not move unchanged, raises the mover's move count by exactly 1 and
\* lowers none of the mover's counters nor its cumulative loss.
C25_OnlyMoverStatsChange ==
    [][board' = board + 1 =>
         IF Turn(board) = "white"
         THEN black_stats' = black_stats /\ OneMoreMove(white_stats, white_stats')
         ELSE white_stats' = white_stats /\ OneMoreMove(black_stats, black_stats')]_vars

\* Three plies in: White has moved twice and blundered, Black once with a loss.
C25_Witness ==
    /\ pc = "loop"
    /\ board = 3
    /\ white_stats.move_count = 2
    /\ white_stats.blunders = 1
    /\ black_stats.move_count = 1
    /\ black_stats.total_cp_loss > 0

\* ---------------------------------------------------------------- C26
\* The side that plays ply k of a game from the standard starting position.
SideOfPly(k) == IF k % 2 = 1 THEN "white" ELSE "black"

\* C26: after k plies move_num is k, so ply indices run 1..N by steps of one;
\* odd plies are White's and even plies Black's; at the end the two move
\* counts sum to N and White's exceeds Black's by 0 or 1; every critical
\* moment's move_num lies in 1..N and its player is the side of that ply.
C26_PlyIndexAndSides ==
    /\ pc \in {"loop", "returned"} => (move_num = Len(ply_log) /\ move_num = board)
    /\ \A k \in 1..Len(ply_log) : ply_log[k].player = SideOfPly(k)
    /\ pc = "returned" =>
           /\ move_num = nPlies
           /\ white_stats.move_count + black_stats.move_count = nPlies
           /\ white_stats.move_count - black_stats.move_count \in {0, 1}
    /\ \A i \in 1..Len(critical_moments) :
           /\ critical_moments[i].move_num \in 1..nPlies
           /\ critical_moments[i].player = SideOfPly(critical_moments[i].move_num)

\* A five-ply game has returned, with critical moments of both sides.
C26_Witness ==
    /\ pc = "returned"
    /\ nPlies = 5
    /\ white_stats.move_count = 3
    /\ black_stats.move_count = 2
    /\ \E i, j \in 1..Len(result.critical) :
           result.critical[i].player = "white" /\ result.critical[j].player = "black"

\* ---------------------------------------------------------------- C27
\* C27: in the unified analyzer a ply after which the evaluation did not move
\* against the mover adds 0 to the mover's cumulative loss and raises none of
\* the three tier counters.
C27_UnifiedImprovementCostsNothing ==
    variant = "unified" =>
        \A k \in 1..Len(ply_log) :
            SpecMoveLoss(k) = 0 =>
                /\ ply_log[k].cp_loss = 0
                /\ Classify("unified", ZeroStats, ply_log[k].cp_loss) = ZeroStats

\* ---------------------------------------------------------------- C28
\* C28: in the modular analyzer the first ply is counted as a White move but
\* is never scored: it adds no loss, raises no tier counter and is no
\* critical moment, whatever the engine reports; a one-ply game returns zero
\* loss, zero tier counts and an empty critical-moment list.
C28_FirstPlyNeverScored ==
    variant = "modular" =>
        /\ Len(ply_log) >= 1 =>
               /\ ply_log[1].player = "white"
               /\ ~ply_log[1].scored
               /\ ply_log[1].cp_loss = 0
        /\ (pc = "loop" /\ board = 1) =>
               /\ white_stats = [ZeroStats EXCEPT !.move_count = 1]
               /\ black_stats = ZeroStats
               /\ critical_moments = <<>>
        /\ \A i \in 1..Len(critical_moments) : critical_moments[i].move_num # 1
        /\ (nPlies = 1 /\ pc = "returned") =>
               /\ white_stats.move_count = 1
               /\ white_stats.total_cp_loss = 0
               /\ result.white = ZeroSummary
               /\ result.black = ZeroSummary
               /\ result.critical = <<>>

\* A one-ply game has returned although the engine saw White mated at the
\* start and winning by far after the move list began.
C28_Witness ==
    /\ variant = "modular"
    /\ nPlies = 1
    /\ pc = "returned"
    /\ engine_score[0] = Mate(-1)
    /\ engine_score[1] = Cp(12000)
    /\ result.white = ZeroSummary

\* ---------------------------------------------------------------- C29
TierTotal ==
    white_stats.blunders + white_stats.mistakes + white_stats.inaccuracies
      + black_stats.blunders + black_stats.mistakes + black_stats.inaccuracies

\* C29: in the modular analyzer every ply counted in a tier is a candidate
\* critical moment: when any of the six tier counters is non-zero the
\* returned list is not empty, it has at least min(3, sum of the six counters)
\* entries, and when a blunder was counted its first entry has cp_loss > 300.
C29_TieredPliesAreCandidates ==
    (variant = "modular" /\ pc = "returned") =>
        /\ TierTotal > 0 => result.critical # <<>>
        /\ Len(result.critical) >= (IF TierTotal < TopK THEN TierTotal ELSE TopK)
        /\ white_stats.blunders + black_stats.blunders > 0 =>
               result.critical[1].cp_loss > BlunderThreshold

\* Four candidates, one of them below every tier, one blunder among the three
\* tiered plies.
C29_Witness ==
    /\ variant = "modular"
    /\ pc = "returned"
    /\ Len(critical_moments) = 4
    /\ TierTotal = 3
    /\ white_stats.blunders + black_stats.blunders = 1
    /\ \E i \in 1..4 : critical_moments[i].cp_loss <= ModularInaccuracyThreshold

====
